---- MODULE Spec2Model ----
(***************************************************************************)
(* Model of the mailgun-sdk message pipeline: MessageBuilder -> Message -> *)
(* wire encoding (serde_urlencoded form or multipart form) -> HTTP         *)
(* exchange -> classification of the response (src/message.rs,             *)
(* src/client.rs, src/error.rs).                                            *)
(*                                                                         *)
(* Option<T> is modelled as a sequence of length at most one:              *)
(* None = <<>>, Some(x) = <<x>>.  Vec<T> is a sequence.  HashMap<&str,&str>*)
(* is a function from keys to values; its iteration order is chosen        *)
(* nondeterministically wherever the code iterates over it.                *)
(***************************************************************************)
EXTENDS Integers, Sequences, FiniteSets, TLC

(***************************************************************************)
(* Bounds of the model.                                                    *)
(***************************************************************************)
\* Number of MessageBuilder method calls made on one builder.
MaxCalls == 3

(***************************************************************************)
(* Option helpers.                                                         *)
(***************************************************************************)
None == <<>>
Some(x) == <<x>>
IsSome(o) == o # <<>>
IsNone(o) == o = <<>>

(***************************************************************************)
(* Input values the builder methods are called with.                       *)
(***************************************************************************)
E1 == [name |-> None, address |-> "a@x.com"]
E2 == [name |-> Some("Bob"), address |-> "b@x.com"]
Emails == {E1, E2}
EmailVecs == {<<>>, <<E1>>, <<E2, E1>>}
CcVecs == {<<E2, E1>>}
Subjects == {"S", "Subject Line"}
Texts == {"Message body"}
Htmls == {"<h1>Body</h1>"}
StrVals == {"yes"}

A1 == [name |-> "f1", file_path |-> "a.txt"]
A2 == [name |-> "img", file_path |-> "b.png"]
A3 == [name |-> "f3", file_path |-> "gone.txt"]
A4 == [name |-> "f4", file_path |-> "c.txt"]
Attachments == {A1, A2, A3, A4}
InlineVecs == {<<>>, <<A1>>}

EmptyMap == <<>>
Map2 == ("k1" :> "v1") @@ ("k2" :> "v2")
Maps == {EmptyMap, Map2}

\* The file system read by the multipart encoder: a path holds UTF-8 text,
\* holds bytes that are not UTF-8, or cannot be opened.
FileKind(path) ==
    IF path \in {"a.txt", "c.txt"} THEN "utf8"
    ELSE IF path = "b.png" THEN "binary"
    ELSE "missing"

(***************************************************************************)
(* Email, EmailList, Attachment, AttachmentList rendering.                 *)
(***************************************************************************)
RECURSIVE Join(_, _)
\* Vec<String>::join(sep)
Join(strs, sep) ==
    IF Len(strs) = 0 THEN ""
    ELSE IF Len(strs) = 1 THEN strs[1]
    ELSE strs[1] \o sep \o Join(Tail(strs), sep)

\* Email::to_string
Email_to_string(e) ==
    IF IsSome(e.name)
    THEN e.name[1] \o " <" \o e.address \o ">"
    ELSE e.address

\* Variant of EmailList_to_string that joins with a comma and a space.
EmailList_to_string_spaced(emails) ==
    Join([i \in 1..Len(emails) |-> Email_to_string(emails[i])], ", ")

\* EmailList::to_string / EmailList::serialize
EmailList_to_string(emails) ==
    Join([i \in 1..Len(emails) |-> Email_to_string(emails[i])], ",")

\* Variant of Attachment_to_string with the path before the name.
Attachment_to_string_swapped(a) == "@" \o a.file_path \o ":" \o a.name

\* Attachment::to_string
Attachment_to_string(a) == "@" \o a.name \o ":" \o a.file_path

\* AttachmentList::serialize
AttachmentList_to_string(attachments) ==
    Join([i \in 1..Len(attachments) |-> Attachment_to_string(attachments[i])], ",")

(***************************************************************************)
(* HashMap iteration orders and serde_json::to_string of a map.            *)
(***************************************************************************)
\* The orders in which a HashMap with the keys of m may be iterated.
Orders(m) ==
    {s \in [1..Cardinality(DOMAIN m) -> DOMAIN m] :
        \A i, j \in DOMAIN s : i # j => s[i] # s[j]}

\* Orders of an Option<HashMap>: nothing to iterate when None.
OptOrders(o) == IF IsSome(o) THEN Orders(o[1]) ELSE {<<>>}

\* serde_json::to_string(&HashMap<&str, &str>), keys visited in order ord.
Json_to_string(m, ord) ==
    "{" \o Join([i \in 1..Len(ord) |->
                   "\"" \o ord[i] \o "\":\"" \o m[ord[i]] \o "\""], ",") \o "}"

(***************************************************************************)
(* Message.                                                                *)
(***************************************************************************)
\* Message::new
Message_new(subject, from, to) ==
    [from |-> from, to |-> to, cc |-> None, bcc |-> None, subject |-> subject,
     text |-> None, html |-> None, amp_html |-> None,
     attachment |-> None, inline |-> None,
     template |-> None, template_version |-> None, template_text |-> None,
     option_tag |-> None, option_dkim |-> None, option_deliverytime |-> None,
     option_testmode |-> None, option_tracking |-> None,
     option_tracking_clicks |-> None, option_tracking_opens |-> None,
     option_require_tls |-> None, option_skip_verification |-> None,
     custom_headers |-> None, custom_data |-> None,
     recipient_variables |-> None]

\* The optional fields of Message that hold a string.
StrFields ==
    {"text", "html", "amp_html", "template", "template_version", "option_tag",
     "option_dkim", "option_deliverytime", "option_testmode",
     "option_tracking", "option_tracking_clicks"}
\* The optional fields of Message that hold a bool.
BoolFields ==
    {"template_text", "option_tracking_opens", "option_require_tls",
     "option_skip_verification"}
\* The optional fields of Message that hold a HashMap.
MapFields == {"custom_headers", "custom_data", "recipient_variables"}

(***************************************************************************)
(* Multipart encoding: Message::as_form.  A part is a text part            *)
(* (add_text) or a file part (add_file, value = the path to read).         *)
(***************************************************************************)
TextPart(name, value) == [kind |-> "text", name |-> name, value |-> value]
FilePart(name, path) == [kind |-> "file", name |-> name, value |-> path]

\* if let Some(v) = field { multipart.add_text(name, v) }
OptText(name, o) == IF IsSome(o) THEN <<TextPart(name, o[1])>> ELSE <<>>

\* if let Some(b) = field { multipart.add_text(name, if b {"yes"} else {"no"}) }
OptYesNo(name, o) ==
    IF IsSome(o) THEN <<TextPart(name, IF o[1] THEN "yes" ELSE "no")>> ELSE <<>>

\* Variant of OptFiles that adds the files from the last to the first.
OptFiles_reversed(o) ==
    IF IsSome(o)
    THEN [i \in 1..Len(o[1]) |->
            FilePart(o[1][Len(o[1]) + 1 - i].name, o[1][Len(o[1]) + 1 - i].file_path)]
    ELSE <<>>

\* if let Some(list) = field { for a in list { multipart.add_file(a.name, a.file_path) } }
OptFiles(o) ==
    IF IsSome(o)
    THEN [i \in 1..Len(o[1]) |-> FilePart(o[1][i].name, o[1][i].file_path)]
    ELSE <<>>

\* if let Some(map) = field { for (k, v) in map { multipart.add_text(prefix + k, v) } }
OptMapTexts(prefix, o, ord) ==
    IF IsSome(o)
    THEN [i \in 1..Len(ord) |-> TextPart(prefix \o ord[i], o[1][ord[i]])]
    ELSE <<>>

\* Message::as_form; ho, do and ro are the iteration orders of the three maps.
\* serde_json::to_string of a map of strings cannot fail, so the result is Ok.
as_form(m, ho, do, ro) ==
    [ok |-> TRUE,
     fields |->
        <<TextPart("from", Email_to_string(m.from)),
          TextPart("to", EmailList_to_string(m.to))>>
        \o (IF IsSome(m.cc) THEN <<TextPart("cc", EmailList_to_string(m.cc[1]))>> ELSE <<>>)
        \o (IF IsSome(m.bcc) THEN <<TextPart("bcc", EmailList_to_string(m.bcc[1]))>> ELSE <<>>)
        \o <<TextPart("subject", m.subject)>>
        \o OptText("text", m.text)
        \o OptText("amp-html", m.amp_html)
        \o OptFiles(m.attachment)
        \o OptFiles(m.inline)
        \o OptText("template", m.template)
        \o OptText("t:version", m.template_version)
        \o (IF IsSome(m.template_text) /\ m.template_text[1]
            THEN <<TextPart("t:text", "yes")>> ELSE <<>>)
        \o OptText("o:tag", m.option_tag)
        \o OptText("o:dkim", m.option_dkim)
        \o OptText("o:deliverytime", m.option_deliverytime)
        \o OptText("o:testmode", m.option_testmode)
        \o OptText("o:tracking", m.option_tracking)
        \o OptText("o:tracking-clicks", m.option_tracking_clicks)
        \o OptYesNo("o:tracking-opens", m.option_tracking_opens)
        \o OptYesNo("o:require-tls", m.option_require_tls)
        \o OptYesNo("o:skip-verification", m.option_skip_verification)
        \o OptMapTexts("h:", m.custom_headers, ho)
        \o OptMapTexts("v:", m.custom_data, do)
        \o (IF IsSome(m.recipient_variables)
            THEN <<TextPart("recipient-variables",
                            Json_to_string(m.recipient_variables[1], ro))>>
            ELSE <<>>)]

\* Variant of prepare that does not notice a file that cannot be opened.
prepare_ignoring_missing(fields) == TRUE

\* Multipart::prepare: opens every file part; fails when one cannot be opened.
prepare(fields) ==
    \A i \in 1..Len(fields) :
        fields[i].kind = "file" => FileKind(fields[i].value) # "missing"

\* PreparedFields::to_body().read_to_string(): fails when the body is not UTF-8.
read_to_string(fields) ==
    \A i \in 1..Len(fields) :
        fields[i].kind = "file" => FileKind(fields[i].value) = "utf8"

(***************************************************************************)
(* URL encoding: serde_urlencoded over the derived Serialize of Message.   *)
(* A struct field is emitted under its declared name, in declaration       *)
(* order; None emits nothing; a bool is emitted as true/false; Email,      *)
(* EmailList and AttachmentList through their Serialize impls; a map value *)
(* is not supported by the encoder and makes the whole encoding fail.      *)
(***************************************************************************)
Pair(name, value) == [kind |-> "text", name |-> name, value |-> value]

\* Variant of UrlStr that emits an unset field with an empty value.
UrlStr_empty_when_unset(name, o) ==
    IF IsSome(o) THEN <<Pair(name, o[1])>> ELSE <<Pair(name, "")>>

\* Option<&str> field
UrlStr(name, o) == IF IsSome(o) THEN <<Pair(name, o[1])>> ELSE <<>>
\* Option<bool> field
UrlBool(name, o) ==
    IF IsSome(o) THEN <<Pair(name, IF o[1] THEN "true" ELSE "false")>> ELSE <<>>
\* Option<EmailList> field
UrlEmails(name, o) ==
    IF IsSome(o) THEN <<Pair(name, EmailList_to_string(o[1]))>> ELSE <<>>
\* Option<AttachmentList> field
UrlAttachments(name, o) ==
    IF IsSome(o) THEN <<Pair(name, AttachmentList_to_string(o[1]))>> ELSE <<>>

\* serde_urlencoded::to_string(&message) / RequestBuilder::form(&message)
urlencoded_to_string(m) ==
    IF \E f \in MapFields : IsSome(m[f])
    THEN [ok |-> FALSE, fields |-> <<>>]
    ELSE [ok |-> TRUE,
          fields |->
            <<Pair("from", Email_to_string(m.from)),
              Pair("to", EmailList_to_string(m.to))>>
            \o UrlEmails("cc", m.cc)
            \o UrlEmails("bcc", m.bcc)
            \o <<Pair("subject", m.subject)>>
            \o UrlStr("text", m.text)
            \o UrlStr("html", m.html)
            \o UrlStr("amp_html", m.amp_html)
            \o UrlAttachments("attachment", m.attachment)
            \o UrlAttachments("inline", m.inline)
            \o UrlStr("template", m.template)
            \o UrlStr("template_version", m.template_version)
            \o UrlBool("template_text", m.template_text)
            \o UrlStr("option_tag", m.option_tag)
            \o UrlStr("option_dkim", m.option_dkim)
            \o UrlStr("option_deliverytime", m.option_deliverytime)
            \o UrlStr("option_testmode", m.option_testmode)
            \o UrlStr("option_tracking", m.option_tracking)
            \o UrlStr("option_tracking_clicks", m.option_tracking_clicks)
            \o UrlBool("option_tracking_opens", m.option_tracking_opens)
            \o UrlBool("option_require_tls", m.option_require_tls)
            \o UrlBool("option_skip_verification", m.option_skip_verification)]

(***************************************************************************)
(* HTTP responses.  A response body is kept as the JSON document it holds  *)
(* (or as raw text when it is not JSON); response_text renders it to the   *)
(* text the code reads and from_str parses it.                             *)
(***************************************************************************)
JStr(s) == [t |-> "str", s |-> s]
JNum(s) == [t |-> "num", s |-> s]
JNull == [t |-> "null", s |-> "null"]
KV(k, v) == [key |-> k, val |-> v]

Raw(text) == [form |-> "raw", text |-> text, items |-> <<>>]
Obj(pairs) == [form |-> "obj", text |-> "", items |-> pairs]
Arr(vals) == [form |-> "arr", text |-> "", items |-> vals]
Scalar(v) == [form |-> "scalar", text |-> "", items |-> <<v>>]

Queued == JStr("Queued. Thank you.")
Id == JStr("<id>")
Bad == JStr("bad")

Bodies ==
    {Raw("Forbidden"), Raw("Forbidden "), Raw("forbidden"), Raw(""),
     Raw("<html>Bad Gateway</html>"),
     Scalar(JStr("Forbidden")), Scalar(JNull),
     Obj(<<KV("message", Queued), KV("id", Id)>>),
     Obj(<<KV("id", Id), KV("message", Queued)>>),
     Obj(<<KV("message", Bad)>>),
     Obj(<<KV("message", JStr("Forbidden"))>>),
     Obj(<<>>),
     Obj(<<KV("id", Id)>>),
     Obj(<<KV("message", JNum("5"))>>),
     Obj(<<KV("message", Bad), KV("id", JNum("5"))>>),
     Obj(<<KV("message", Bad), KV("id", JNull)>>),
     Obj(<<KV("message", Queued), KV("id", Id), KV("x", JStr("y"))>>),
     Obj(<<KV("message", Bad), KV("x", JStr("y"))>>),
     Obj(<<KV("message", Bad), KV("message", Bad)>>),
     Obj(<<KV("message", Queued), KV("id", Id), KV("id", Id)>>),
     Arr(<<Queued, Id>>), Arr(<<Bad>>), Arr(<<>>)}

\* What the transport hands back for one request: request.send() fails,
\* response.text() fails, or the body text is read.
Responses ==
    {[t |-> "send_err", body |-> Raw("")], [t |-> "text_err", body |-> Raw("")]}
    \cup {[t |-> "body", body |-> b] : b \in Bodies}

JVal_text(v) == IF v.t = "str" THEN "\"" \o v.s \o "\"" ELSE v.s

\* Response::text(): the text of the body.
response_text(b) ==
    CASE b.form = "raw" -> b.text
      [] b.form = "scalar" -> JVal_text(b.items[1])
      [] b.form = "arr" ->
            "[" \o Join([i \in 1..Len(b.items) |-> JVal_text(b.items[i])], ",") \o "]"
      [] b.form = "obj" ->
            "{" \o Join([i \in 1..Len(b.items) |->
                           "\"" \o b.items[i].key \o "\":" \o JVal_text(b.items[i].val)], ",")
                \o "}"

\* Number of members of a JSON object with key k.
Count(pairs, k) == Cardinality({i \in 1..Len(pairs) : pairs[i].key = k})
\* The object has exactly one member k and its value is a string.
OneStr(pairs, k) ==
    /\ Count(pairs, k) = 1
    /\ \A i \in 1..Len(pairs) : pairs[i].key = k => pairs[i].val.t = "str"
\* The position of member k.
IndexOf(pairs, k) == (CHOOSE i \in 1..Len(pairs) : pairs[i].key = k)

ParseErr == [ok |-> FALSE, variant |-> "", message |-> "", id |-> ""]
ParsedSuccess(message, id) ==
    [ok |-> TRUE, variant |-> "Success", message |-> message, id |-> id]
ParsedFailure(message) ==
    [ok |-> TRUE, variant |-> "Failure", message |-> message, id |-> ""]

\* Variant of from_str with the variants declared in the other order:
\* Failure {message} is tried first and accepts whatever has a message.
from_str_failure_first(b) ==
    CASE b.form = "obj" ->
            IF OneStr(b.items, "message")
            THEN ParsedFailure(b.items[IndexOf(b.items, "message")].val.s)
            ELSE ParseErr
      [] b.form = "arr" ->
            IF Len(b.items) = 1 /\ b.items[1].t = "str"
            THEN ParsedFailure(b.items[1].s)
            ELSE IF Len(b.items) = 2 /\ b.items[1].t = "str" /\ b.items[2].t = "str"
            THEN ParsedSuccess(b.items[1].s, b.items[2].s)
            ELSE ParseErr
      [] OTHER -> ParseErr

\* serde_json::from_str::<SendMessageResponse>: the untagged enum tries
\* Success {message, id} and then Failure {message}.  A struct variant is
\* read from an object (unknown members ignored, a missing, repeated or
\* non-string member an error) or from an array of exactly its fields.
from_str(b) ==
    CASE b.form = "obj" ->
            IF OneStr(b.items, "message") /\ OneStr(b.items, "id")
            THEN ParsedSuccess(b.items[IndexOf(b.items, "message")].val.s,
                               b.items[IndexOf(b.items, "id")].val.s)
            ELSE IF OneStr(b.items, "message")
            THEN ParsedFailure(b.items[IndexOf(b.items, "message")].val.s)
            ELSE ParseErr
      [] b.form = "arr" ->
            IF Len(b.items) = 2 /\ b.items[1].t = "str" /\ b.items[2].t = "str"
            THEN ParsedSuccess(b.items[1].s, b.items[2].s)
            ELSE IF Len(b.items) = 1 /\ b.items[1].t = "str"
            THEN ParsedFailure(b.items[1].s)
            ELSE ParseErr
      [] OTHER -> ParseErr

(***************************************************************************)
(* Outcomes of send_message_with_client.                                   *)
(***************************************************************************)
Outcome(kind, message, id) == [kind |-> kind, message |-> message, id |-> id]
NoOutcome == Outcome("None", "", "")

\* Variant of classify without the comparison to the literal Forbidden.
classify_without_literal(b) ==
    LET r == from_str(b) IN
    IF ~r.ok THEN Outcome("Unknown", "parse", "")
    ELSE IF r.variant = "Success" THEN Outcome("Success", r.message, r.id)
    ELSE Outcome("SendMessageError", r.message, "")

\* Variant of classify that reports an unparseable body as a rejected send.
classify_parse_error_as_rejection(b) ==
    IF response_text(b) = "Forbidden"
    THEN Outcome("ApiForbiddenError", "", "")
    ELSE LET r == from_str(b) IN
         IF ~r.ok THEN Outcome("SendMessageError", "parse", "")
         ELSE IF r.variant = "Success" THEN Outcome("Success", r.message, r.id)
         ELSE Outcome("SendMessageError", r.message, "")

\* Lines 830-845: classification of the response text.
classify(b) ==
    IF response_text(b) = "Forbidden"
    THEN Outcome("ApiForbiddenError", "", "")
    ELSE LET r == from_str(b) IN
         IF ~r.ok THEN Outcome("Unknown", "parse", "")
         ELSE IF r.variant = "Success" THEN Outcome("Success", r.message, r.id)
         ELSE Outcome("SendMessageError", r.message, "")

\* Lines 823-846: what send returns for what the transport handed back.
receive(resp) ==
    CASE resp.t = "send_err" -> Outcome("Unknown", "send", "")
      [] resp.t = "text_err" -> Outcome("Unknown", "Unable to read response", "")
      [] OTHER -> classify(resp.body)

(***************************************************************************)
(* State.                                                                  *)
(***************************************************************************)
VARIABLES
    message,   \* MessageBuilder.message
    calls,     \* number of builder method calls made so far
    pc,        \* "idle", "encoded", "sending" (request on the network) or "done"
    request,   \* the HTTP request body of the send in progress (multipart: the
               \* parts in the order as_form added them to the form)
    response,  \* what the transport handed back to the send in progress
    outcome,   \* what send_message_with_client returned (or that it panicked)
    sent,      \* number of HTTP requests the send in progress put on the network
    encoded,   \* result of serde_urlencoded::to_string(message)
    given,     \* history: per builder method the argument of its most recent
               \* call (constructor arguments before any call); for
               \* attachment the sequence of all arguments in call order
    client,    \* the Client the send is called on: api_key and domain
    other      \* the same variables of a second thread of the program, which
               \* has its own client, builder and send; the variables above
               \* are those of the thread that is running

vars == <<message, calls, pc, request, response, outcome, sent, encoded, given, client, other>>

NoRequest == [encoding |-> "none", fields |-> <<>>, url |-> "", auth |-> ""]
NoResponse == [t |-> "none", body |-> Raw("")]
NoEncoded == [ok |-> FALSE, fields |-> <<>>]

\* The methods of MessageBuilder (each named after the field it sets).
MethodNames ==
    {"from", "to", "cc", "bcc", "subject", "attachment", "inline"}
        \cup StrFields \cup BoolFields \cup MapFields

\* Client::new
Client_new(api_key, domain) == [api_key |-> api_key, domain |-> domain]
Client1 == Client_new("key-1", "mg.x.com")
Client2 == Client_new("key-2", "mg.y.com")
Clients == {Client1, Client2}

\* The arguments given so far when only the constructor was called.
NewGiven(subject, from, to) ==
    [f \in MethodNames |->
        CASE f = "subject" -> subject
          [] f = "from" -> from
          [] f = "to" -> to
          [] OTHER -> None]

\* A thread that has made a client and a builder and nothing else.
NewThread(c, subject, from, to) ==
    [client |-> c, message |-> Message_new(subject, from, to), calls |-> 0,
     given |-> NewGiven(subject, from, to), pc |-> "idle",
     request |-> NoRequest, response |-> NoResponse, outcome |-> NoOutcome,
     sent |-> 0, encoded |-> NoEncoded]

\* Client::new and MessageBuilder::new in the running thread; the second
\* thread does not run in this specification.
Init ==
    /\ \E subject \in {"S"}, from \in Emails, to \in {<<E1>>, <<E2, E1>>} :
          /\ message = Message_new(subject, from, to)
          /\ given = NewGiven(subject, from, to)
    /\ client = Client1
    /\ other = NewThread(Client2, "S", E1, <<E1>>)
    /\ calls = 0
    /\ pc = "idle"
    /\ request = NoRequest
    /\ response = NoResponse
    /\ outcome = NoOutcome
    /\ sent = 0
    /\ encoded = NoEncoded

(***************************************************************************)
(* MessageBuilder methods.  The builder is borrowed mutably by a method    *)
(* and immutably by get_message, so a method runs only while no send or    *)
(* encoding holds the message.                                             *)
(***************************************************************************)
\* History of the arguments: method was called with arg.
Given(method, arg) == given' = [given EXCEPT ![method] = arg]

\* Variant of Set in which setting the inline list drops the attachments.
Set_inline_replaces_attachment(field, value) ==
    /\ pc = "idle"
    /\ calls < MaxCalls
    /\ message' = IF field = "inline"
                  THEN [message EXCEPT ![field] = value, !["attachment"] = None]
                  ELSE [message EXCEPT ![field] = value]
    /\ calls' = calls + 1
    /\ UNCHANGED <<pc, request, response, outcome, sent, encoded, client, other>>

\* Variant of Set in which setting the html body drops the text body.
Set_html_replaces_text(field, value) ==
    /\ pc = "idle"
    /\ calls < MaxCalls
    /\ message' = IF field = "html"
                  THEN [message EXCEPT ![field] = value, !["text"] = None]
                  ELSE [message EXCEPT ![field] = value]
    /\ calls' = calls + 1
    /\ UNCHANGED <<pc, request, response, outcome, sent, encoded, client, other>>

\* self.message.<field> = value
Set(field, value) ==
    /\ pc = "idle"
    /\ calls < MaxCalls
    /\ message' = [message EXCEPT ![field] = value]
    /\ calls' = calls + 1
    /\ UNCHANGED <<pc, request, response, outcome, sent, encoded, client, other>>

MessageBuilder_from == \E from \in Emails : Set("from", from) /\ Given("from", from)
MessageBuilder_to == \E to \in EmailVecs : Set("to", to) /\ Given("to", to)
MessageBuilder_cc == \E cc \in {None} \cup {Some(v) : v \in CcVecs} : Set("cc", cc) /\ Given("cc", cc)
MessageBuilder_bcc == \E bcc \in {None} \cup {Some(v) : v \in CcVecs} : Set("bcc", bcc) /\ Given("bcc", bcc)
MessageBuilder_subject == \E subject \in Subjects : Set("subject", subject) /\ Given("subject", subject)
MessageBuilder_text == \E text \in {None} \cup {Some(v) : v \in Texts} : Set("text", text) /\ Given("text", text)
MessageBuilder_html == \E html \in {None} \cup {Some(v) : v \in Htmls} : Set("html", html) /\ Given("html", html)

\* Variant of push that keeps only the attachment pushed last.
AttachmentList_push_replacing(attachments, attachment) == <<attachment>>

\* AttachmentList::push
AttachmentList_push(attachments, attachment) == Append(attachments, attachment)

MessageBuilder_attachment ==
    \E attachment \in Attachments :
        LET list == IF IsNone(message.attachment) THEN <<>> ELSE message.attachment[1]
        IN  /\ Set("attachment", Some(AttachmentList_push(list, attachment)))
            /\ Given("attachment", Append(given.attachment, attachment))

MessageBuilder_inline ==
    \E inline \in {None} \cup {Some(v) : v \in InlineVecs} : Set("inline", inline) /\ Given("inline", inline)

MessageBuilder_amp_html ==
    \E v \in {None} \cup {Some(x) : x \in StrVals} : Set("amp_html", v) /\ Given("amp_html", v)
MessageBuilder_template ==
    \E v \in {None} \cup {Some(x) : x \in StrVals} : Set("template", v) /\ Given("template", v)
MessageBuilder_template_version ==
    \E v \in {None} \cup {Some(x) : x \in StrVals} : Set("template_version", v) /\ Given("template_version", v)
MessageBuilder_option_tag ==
    \E v \in {None} \cup {Some(x) : x \in StrVals} : Set("option_tag", v) /\ Given("option_tag", v)
MessageBuilder_option_dkim ==
    \E v \in {None} \cup {Some(x) : x \in StrVals} : Set("option_dkim", v) /\ Given("option_dkim", v)
MessageBuilder_option_deliverytime ==
    \E v \in {None} \cup {Some(x) : x \in StrVals} : Set("option_deliverytime", v) /\ Given("option_deliverytime", v)
MessageBuilder_option_testmode ==
    \E v \in {None} \cup {Some(x) : x \in StrVals} : Set("option_testmode", v) /\ Given("option_testmode", v)
MessageBuilder_option_tracking ==
    \E v \in {None} \cup {Some(x) : x \in StrVals} : Set("option_tracking", v) /\ Given("option_tracking", v)
MessageBuilder_option_tracking_clicks ==
    \E v \in {None} \cup {Some(x) : x \in StrVals} : Set("option_tracking_clicks", v) /\ Given("option_tracking_clicks", v)
MessageBuilder_template_text ==
    \E v \in {None, Some(TRUE), Some(FALSE)} : Set("template_text", v) /\ Given("template_text", v)
MessageBuilder_option_tracking_opens ==
    \E v \in {None, Some(TRUE), Some(FALSE)} : Set("option_tracking_opens", v) /\ Given("option_tracking_opens", v)
MessageBuilder_option_require_tls ==
    \E v \in {None, Some(TRUE), Some(FALSE)} : Set("option_require_tls", v) /\ Given("option_require_tls", v)
MessageBuilder_option_skip_verification ==
    \E v \in {None, Some(TRUE), Some(FALSE)} : Set("option_skip_verification", v) /\ Given("option_skip_verification", v)
MessageBuilder_custom_headers ==
    \E v \in {None} \cup {Some(x) : x \in Maps} : Set("custom_headers", v) /\ Given("custom_headers", v)
MessageBuilder_custom_data ==
    \E v \in {None} \cup {Some(x) : x \in Maps} : Set("custom_data", v) /\ Given("custom_data", v)
MessageBuilder_recipient_variables ==
    \E v \in {None} \cup {Some(x) : x \in Maps} : Set("recipient_variables", v) /\ Given("recipient_variables", v)

Build ==
    \/ MessageBuilder_from
    \/ MessageBuilder_to
    \/ MessageBuilder_cc
    \/ MessageBuilder_bcc
    \/ MessageBuilder_subject
    \/ MessageBuilder_text
    \/ MessageBuilder_html
    \/ MessageBuilder_attachment
    \/ MessageBuilder_inline
    \/ MessageBuilder_amp_html
    \/ MessageBuilder_template
    \/ MessageBuilder_template_version
    \/ MessageBuilder_option_tag
    \/ MessageBuilder_option_dkim
    \/ MessageBuilder_option_deliverytime
    \/ MessageBuilder_option_testmode
    \/ MessageBuilder_option_tracking
    \/ MessageBuilder_option_tracking_clicks
    \/ MessageBuilder_template_text
    \/ MessageBuilder_option_tracking_opens
    \/ MessageBuilder_option_require_tls
    \/ MessageBuilder_option_skip_verification
    \/ MessageBuilder_custom_headers
    \/ MessageBuilder_custom_data
    \/ MessageBuilder_recipient_variables

(***************************************************************************)
(* serde_urlencoded::to_string(message), as called by tests::message_      *)
(* serialize on the message of a builder.                                  *)
(***************************************************************************)
to_string ==
    /\ pc = "idle"
    /\ encoded' = urlencoded_to_string(message)
    /\ pc' = "encoded"
    /\ UNCHANGED <<message, calls, request, response, outcome, sent, given, client, other>>

(***************************************************************************)
(* send_message_with_client (Client::send_message), lines 795-823: the     *)
(* body check, the choice and construction of the request body, and the    *)
(* request going out.                                                      *)
(***************************************************************************)
\* Variant of no_body that lets a template stand in for the body.
no_body_unless_template(m) ==
    IsNone(m.text) /\ IsNone(m.html) /\ IsNone(m.template)

\* message.text().is_none() && message.html().is_none()
no_body(m) == IsNone(m.text) /\ IsNone(m.html)

\* message.attachment().is_none() && message.inline().is_none()
use_form(m) == IsNone(m.attachment) /\ IsNone(m.inline)

\* lib.rs: API_BASE_PATH
API_BASE_PATH == "https://api.mailgun.net/v3"

Fail(kind, cause) ==
    /\ outcome' = Outcome(kind, cause, "")
    /\ pc' = "done"
    /\ UNCHANGED <<request, sent>>

\* Variant of Issue that addresses the request with the client of the other
\* thread's call.
Issue_with_other_client(encoding, fields) ==
    /\ request' = [encoding |-> encoding, fields |-> fields,
                    url |-> API_BASE_PATH \o "/" \o other.client.domain \o "/messages",
                    auth |-> "api:" \o other.client.api_key]
    /\ sent' = sent + 1
    /\ pc' = "sending"
    /\ UNCHANGED outcome

\* Lines 800-823: the request is addressed and authorised with the client's
\* domain and api key and goes out.
Issue(encoding, fields) ==
    /\ request' = [encoding |-> encoding, fields |-> fields,
                    url |-> API_BASE_PATH \o "/" \o client.domain \o "/messages",
                    auth |-> "api:" \o client.api_key]
    /\ sent' = sent + 1
    /\ pc' = "sending"
    /\ UNCHANGED outcome

send_message ==
    /\ pc = "idle"
    /\ UNCHANGED <<message, calls, response, encoded, given, client, other>>
    /\ IF no_body(message) THEN Fail("Panic", "No message body is set")
       ELSE IF use_form(message)
       THEN LET form == urlencoded_to_string(message) IN
            IF form.ok THEN Issue("form", form.fields)
            ELSE Fail("Unknown", "unsupported value")
       ELSE \E ho \in OptOrders(message.custom_headers),
               do \in OptOrders(message.custom_data),
               ro \in OptOrders(message.recipient_variables) :
            LET form == as_form(message, ho, do, ro) IN
            IF ~form.ok THEN Fail("MessageError", "")
            ELSE IF ~prepare(form.fields) THEN Fail("MessageParamsError", "")
            ELSE IF ~read_to_string(form.fields) THEN Fail("MessageBodyError", "")
            ELSE Issue("multipart", form.fields)

\* Variant of receive_response that sends the request again when the
\* transport failed.
receive_response_retrying ==
    /\ pc = "sending"
    /\ \E resp \in Responses :
          IF resp.t = "send_err"
          THEN /\ sent' = sent + 1
               /\ UNCHANGED <<pc, response, outcome>>
          ELSE /\ response' = resp
               /\ outcome' = receive(resp)
               /\ pc' = "done"
               /\ UNCHANGED sent
    /\ UNCHANGED <<message, calls, request, encoded, given, client, other>>

\* Lines 823-846: the response arrives and is classified.
receive_response ==
    /\ pc = "sending"
    /\ \E resp \in Responses :
          /\ response' = resp
          /\ outcome' = receive(resp)
    /\ pc' = "done"
    /\ UNCHANGED <<message, calls, request, sent, encoded, given, client, other>>

\* The call returned (or the encoded string was dropped): the borrow of the
\* message ends.  A panic does not return.
return ==
    /\ pc \in {"done", "encoded"}
    /\ outcome.kind # "Panic"
    /\ pc' = "idle"
    /\ request' = NoRequest
    /\ response' = NoResponse
    /\ outcome' = NoOutcome
    /\ sent' = 0
    /\ encoded' = NoEncoded
    /\ UNCHANGED <<message, calls, given, client, other>>

Next ==
    \/ Build
    \/ to_string
    \/ send_message
    \/ receive_response
    \/ return

Spec == Init /\ [][Next]_vars

(***************************************************************************)
(* Two threads, each calling send_message on its own borrow of a message.  *)
(* The threads run interleaved: yield suspends the running thread and      *)
(* resumes the other one at any point of a send.                           *)
(***************************************************************************)
\* The variables of the running thread.
Locals ==
    [client |-> client, message |-> message, calls |-> calls, given |-> given,
     pc |-> pc, request |-> request, response |-> response,
     outcome |-> outcome, sent |-> sent, encoded |-> encoded]

\* The scheduler switches to the other thread.
yield ==
    /\ other' = Locals
    /\ client' = other.client
    /\ message' = other.message
    /\ calls' = other.calls
    /\ given' = other.given
    /\ pc' = other.pc
    /\ request' = other.request
    /\ response' = other.response
    /\ outcome' = other.outcome
    /\ sent' = other.sent
    /\ encoded' = other.encoded

\* A thread whose builder got the calls method(arg) of the sequence cs.
RECURSIVE Built(_, _)
Built(th, cs) ==
    IF cs = <<>> THEN th
    ELSE Built([th EXCEPT !.message[cs[1][1]] = cs[1][2],
                          !.given[cs[1][1]] = cs[1][2],
                          !.calls = @ + 1],
               Tail(cs))

\* A thread whose builder got attachment(a) and then the calls of cs.
BuiltWithAttachment(th, a, cs) ==
    Built([th EXCEPT !.message.attachment = Some(<<a>>),
                     !.given.attachment = <<a>>,
                     !.calls = @ + 1],
          cs)

\* The threads a concurrent run starts from: client and builder made, the
\* builder calls done, the send not yet called.
ReadyThreads ==
    UNION {
        {NewThread(c, "S", E1, <<E1>>),
         Built(NewThread(c, "S", E1, <<E1>>), <<<<"text", Some("Message body")>>>>),
         Built(NewThread(c, "S", E2, <<E2, E1>>), <<<<"html", Some("<h1>Body</h1>")>>>>),
         BuiltWithAttachment(NewThread(c, "S", E1, <<E1>>), A1,
                             <<<<"text", Some("Message body")>>>>),
         BuiltWithAttachment(NewThread(c, "S", E1, <<E1>>), A3,
                             <<<<"text", Some("Message body")>>>>)}
        : c \in Clients}

InitConcurrent ==
    /\ \E th \in ReadyThreads :
          /\ client = th.client
          /\ message = th.message
          /\ calls = th.calls
          /\ given = th.given
          /\ pc = th.pc
          /\ request = th.request
          /\ response = th.response
          /\ outcome = th.outcome
          /\ sent = th.sent
          /\ encoded = th.encoded
    /\ other \in ReadyThreads

NextConcurrent ==
    \/ send_message
    \/ receive_response
    \/ return
    \/ yield

SpecConcurrent == InitConcurrent /\ [][NextConcurrent]_vars

TypeOK ==
    /\ calls \in 0..MaxCalls
    /\ sent \in 0..1
    /\ pc \in {"idle", "encoded", "sending", "done"}

(***************************************************************************)
(* Properties.                                                             *)
(***************************************************************************)
\* A send is in progress or has ended (the message is still borrowed).
InSend == pc \in {"sending", "done"}
\* The transport handed back a body text for the send that has ended.
GotBody == pc = "done" /\ response.t = "body"
\* The wire fields of the request with the given name.
Named(fields, name) == {i \in 1..Len(fields) : fields[i].name = name}
\* Exactly one text field name=value is on the wire.
OneField(fields, name, value) ==
    /\ Cardinality(Named(fields, name)) = 1
    /\ \A i \in Named(fields, name) : fields[i].kind = "text" /\ fields[i].value = value
\* The list is unset or empty.
EmptyOrUnset(o) == IsNone(o) \/ o[1] = <<>>
\* A JSON object has a member k whose value is a string.
HasStr(pairs, k) == \E i \in 1..Len(pairs) : pairs[i].key = k /\ pairs[i].val.t = "str"
\* A JSON object has a member k with the string value s.
HasStrVal(pairs, k, s) ==
    \E i \in 1..Len(pairs) : pairs[i].key = k /\ pairs[i].val = JStr(s)

\* C1: a send of a message with both text and html unset ends in the panic
\* "No message body is set" and puts no HTTP request on the network,
\* whatever other fields are set.
C1_NoBodyNeverSent ==
    (InSend /\ IsNone(message.text) /\ IsNone(message.html))
        => (pc = "done" /\ outcome.kind = "Panic" /\ sent = 0 /\ request = NoRequest)

C1_Witness ==
    /\ pc = "done" /\ outcome.kind = "Panic" /\ sent = 0
    /\ IsSome(message.attachment) /\ IsSome(message.template)

\* C2: a request is URL-encoded if and only if both the attachment list and
\* the inline list are empty or unset, and is multipart otherwise.
C2_EncoderSelection ==
    pc = "sending" =>
        (request.encoding = "form"
            <=> (EmptyOrUnset(message.attachment) /\ EmptyOrUnset(message.inline)))

\* C3: a response whose body text is exactly Forbidden classifies as
\* ApiForbiddenError, and no other body text does.
C3_ForbiddenLiteral ==
    GotBody =>
        (outcome.kind = "ApiForbiddenError"
            <=> response_text(response.body) = "Forbidden")

C3_Witness ==
    /\ GotBody /\ response.body = Raw("Forbidden")
    /\ outcome = Outcome("ApiForbiddenError", "", "")

\* The classification C4 states for a JSON object body: Success with id and
\* message verbatim exactly when it has a string message and a string id,
\* SendMessageError with the message exactly when it has a string message
\* and no string id.
StructuralClassification ==
    LET pairs == response.body.items IN
    /\ (outcome.kind = "Success"
            <=> (HasStr(pairs, "message") /\ HasStr(pairs, "id")))
    /\ (outcome.kind = "Success"
            => (HasStrVal(pairs, "message", outcome.message)
                /\ HasStrVal(pairs, "id", outcome.id)))
    /\ (outcome.kind = "SendMessageError"
            <=> (HasStr(pairs, "message") /\ ~HasStr(pairs, "id")))
    /\ (outcome.kind = "SendMessageError"
            => HasStrVal(pairs, "message", outcome.message))

\* C4 as stated: every JSON object body other than Forbidden is classified
\* structurally.
C4_Structural_Original ==
    (GotBody /\ response.body.form = "obj") => StructuralClassification

\* C4 as amended: every JSON object body in which the keys message and id
\* each occur at most once is classified structurally; Ok is returned only
\* with a Success value.
C4_Structural ==
    (GotBody /\ response.body.form = "obj"
        /\ Count(response.body.items, "message") <= 1
        /\ Count(response.body.items, "id") <= 1)
        => StructuralClassification

C4_Witness ==
    /\ GotBody
    /\ response.body = Obj(<<KV("message", Bad), KV("id", JNum("5"))>>)
    /\ outcome = Outcome("SendMessageError", "bad", "")

WireName ==
    [text |-> "text", html |-> "html", amp_html |-> "amp-html",
     template |-> "template", template_version |-> "t:version",
     option_tag |-> "o:tag", option_dkim |-> "o:dkim",
     option_deliverytime |-> "o:deliverytime", option_testmode |-> "o:testmode",
     option_tracking |-> "o:tracking",
     option_tracking_clicks |-> "o:tracking-clicks",
     option_tracking_opens |-> "o:tracking-opens",
     option_require_tls |-> "o:require-tls",
     option_skip_verification |-> "o:skip-verification"]

\* Every set optional string field is on the wire once under its table name.
StrFieldsEmitted(fields) ==
    \A f \in StrFields :
        IsSome(message[f]) => OneField(fields, WireName[f], message[f][1])

\* Every key of a set map field is on the wire once under prefix + key.
MapEmitted(fields, prefix, o) ==
    IsSome(o) => \A k \in DOMAIN o[1] : OneField(fields, prefix \o k, o[1][k])

\* A set recipient_variables map is on the wire once as recipient-variables.
RecipientVariablesEmitted(fields) ==
    IsSome(message.recipient_variables)
        => Cardinality(Named(fields, "recipient-variables")) = 1

\* Set cc and bcc lists are on the wire once.
CcEmitted(fields) ==
    /\ IsSome(message.cc) => Cardinality(Named(fields, "cc")) = 1
    /\ IsSome(message.bcc) => Cardinality(Named(fields, "bcc")) = 1

\* template_text: t:text=yes once when true, no t:text at all otherwise.
TemplateTextRule(fields) ==
    IF IsSome(message.template_text) /\ message.template_text[1]
    THEN OneField(fields, "t:text", "yes")
    ELSE Named(fields, "t:text") = {}

\* The three bool options: yes or no once when set, nothing when unset.
YesNoRule(fields) ==
    \A f \in {"option_tracking_opens", "option_require_tls", "option_skip_verification"} :
        IF IsSome(message[f])
        THEN OneField(fields, WireName[f], IF message[f][1] THEN "yes" ELSE "no")
        ELSE Named(fields, WireName[f]) = {}

\* C6: a message with a body and without attachments or inline is sent
\* URL-encoded with every set optional field under its table wire name.
C6_UrlWireNames ==
    (InSend /\ outcome.kind # "Panic"
        /\ IsNone(message.attachment) /\ IsNone(message.inline))
        => /\ request.encoding = "form"
           /\ StrFieldsEmitted(request.fields)
           /\ MapEmitted(request.fields, "h:", message.custom_headers)
           /\ MapEmitted(request.fields, "v:", message.custom_data)
           /\ RecipientVariablesEmitted(request.fields)

\* C7: a multipart request carries every set table field as exactly one text
\* part (one per key for the maps), html included.
C7_MultipartAllFields ==
    (pc = "sending" /\ request.encoding = "multipart")
        => /\ StrFieldsEmitted(request.fields)
           /\ CcEmitted(request.fields)
           /\ TemplateTextRule(request.fields)
           /\ YesNoRule(request.fields)
           /\ MapEmitted(request.fields, "h:", message.custom_headers)
           /\ MapEmitted(request.fields, "v:", message.custom_data)
           /\ RecipientVariablesEmitted(request.fields)

\* C8: in both encodings template_text false or unset gives no t:text field
\* and template_text true gives exactly one field t:text=yes.
C8_TemplateText ==
    pc = "sending" => TemplateTextRule(request.fields)

\* C9: in both encodings each of the three bool options gives yes/no under
\* its o: name when set and no field when unset.
C9_YesNoOptions ==
    pc = "sending" => YesNoRule(request.fields)

\* The address rules: name <address> with a name, address without.
RenderAddress(e) ==
    IF e.name = None THEN e.address ELSE e.name[1] \o " <" \o e.address \o ">"
\* A list is its renders joined by a comma (lists of up to two addresses).
RenderList(l) ==
    CASE Len(l) = 0 -> ""
      [] Len(l) = 1 -> RenderAddress(l[1])
      [] Len(l) = 2 -> RenderAddress(l[1]) \o "," \o RenderAddress(l[2])

\* Only the three required fields of the message are set.
OnlyRequired(m) ==
    \A f \in StrFields \cup BoolFields \cup MapFields \cup {"cc", "bcc", "attachment", "inline"} :
        IsNone(m[f])

\* C10: URL-encoding a message with only its required fields set yields
\* exactly the pairs from, to, subject in that order, from and to rendered by
\* the address rules.
C10_RequiredOnly ==
    (pc = "encoded" /\ OnlyRequired(message))
        => /\ encoded.ok
           /\ encoded.fields =
                <<Pair("from", RenderAddress(message.from)),
                  Pair("to", RenderList(message.to)),
                  Pair("subject", message.subject)>>

C10_Witness ==
    /\ pc = "encoded" /\ OnlyRequired(message)
    /\ message.from = E2 /\ message.to = <<E2, E1>>
    /\ message.subject = "Subject Line"
    /\ Len(encoded.fields) = 3

\* C11: wherever an address list of one or more addresses is rendered
\* (serialized into the URL-encoded pairs or written by to_string into a
\* multipart text part) the result is the renders of its addresses joined by
\* a single comma in input order, an address being name <address> with a
\* name and address without.
AddressesRendered(fields) ==
    /\ OneField(fields, "from", RenderAddress(message.from))
    /\ Len(message.to) >= 1 => OneField(fields, "to", RenderList(message.to))
    /\ (IsSome(message.cc) /\ Len(message.cc[1]) >= 1)
            => OneField(fields, "cc", RenderList(message.cc[1]))
    /\ (IsSome(message.bcc) /\ Len(message.bcc[1]) >= 1)
            => OneField(fields, "bcc", RenderList(message.bcc[1]))

C11_AddressListRender ==
    /\ (pc = "encoded" /\ encoded.ok) => AddressesRendered(encoded.fields)
    /\ pc = "sending" => AddressesRendered(request.fields)

C11_Witness ==
    /\ pc = "sending" /\ request.encoding = "multipart"
    /\ message.to = <<E2, E1>>
    /\ OneField(request.fields, "to", "Bob <b@x.com>,a@x.com")
    /\ OneField(request.fields, "from", "a@x.com")

\* The render of an attachment: @name:file_path.
RenderAttachment(a) == "@" \o a.name \o ":" \o a.file_path
RECURSIVE RenderAttachments(_, _)
\* The renders of the first n attachments of l, each after the first preceded
\* by a comma.
RenderAttachments(l, n) ==
    IF n = 0 THEN ""
    ELSE IF n = 1 THEN RenderAttachment(l[1])
    ELSE RenderAttachments(l, n - 1) \o "," \o RenderAttachment(l[n])

\* C12: an attachment list serializes as the renders @name:file_path of its
\* attachments joined by a single comma in list order.
C12_AttachmentRender ==
    (pc = "encoded" /\ encoded.ok) =>
        /\ IsSome(message.attachment) =>
              OneField(encoded.fields, "attachment",
                       RenderAttachments(message.attachment[1], Len(message.attachment[1])))
        /\ IsSome(message.inline) =>
              OneField(encoded.fields, "inline",
                       RenderAttachments(message.inline[1], Len(message.inline[1])))

C12_Witness ==
    /\ pc = "encoded" /\ encoded.ok
    /\ message.attachment = Some(<<A1, A2>>)
    /\ OneField(encoded.fields, "attachment", "@f1:a.txt,@img:b.png")

\* C13: after any sequence of builder calls, every field other than attachment
\* holds the argument of the most recent call of its own method (the
\* constructor value when the method was never called).
C13_SettersReplace ==
    \A f \in MethodNames \ {"attachment"} : message[f] = given[f]

C13_Witness ==
    /\ calls >= 3
    /\ IsSome(message.html) /\ IsSome(message.text)
    /\ message.subject = "Subject Line"
    /\ given.subject = "Subject Line"

\* C14: the attachment list of the message is exactly the attachments given
\* to the attachment method, in call order, and unset when there was no call.
C14_AttachmentAppends ==
    message.attachment =
        IF given.attachment = <<>> THEN None ELSE Some(given.attachment)

C14_Witness ==
    /\ message.attachment = Some(<<A2, A1>>)
    /\ given.attachment = <<A2, A1>>
    /\ IsSome(message.inline)

\* C15: a send puts at most one request on the network and returns exactly
\* one outcome: while the request is out nothing was returned, and once the
\* call has ended it has an outcome, with a response exactly when a request
\* went out.
C15_OneExchange ==
    /\ sent <= 1
    /\ pc = "sending" => (sent = 1 /\ outcome = NoOutcome /\ response = NoResponse)
    /\ pc = "done" =>
          /\ outcome # NoOutcome
          /\ (sent = 1 <=> response # NoResponse)
          /\ (sent = 0 <=> request = NoRequest)

C15_Witness ==
    /\ pc = "done" /\ sent = 1
    /\ response.t = "send_err"
    /\ outcome = Outcome("Unknown", "send", "")

\* C16: the to list of the message holds at least one address.
C16_ToNonEmpty == Len(message.to) >= 1

\* The file parts one per entry of the attachment list and then of the inline
\* list, each in list order (field name = the name of the attachment).
ExpectedFiles ==
    LET att == IF IsSome(message.attachment) THEN message.attachment[1] ELSE <<>>
        inl == IF IsSome(message.inline) THEN message.inline[1] ELSE <<>>
    IN  [i \in 1..Len(att) |-> [kind |-> "file", name |-> att[i].name, value |-> att[i].file_path]]
        \o [i \in 1..Len(inl) |-> [kind |-> "file", name |-> inl[i].name, value |-> inl[i].file_path]]

IsFile(part) == part.kind = "file"
\* The wire names of the text parts as_form adds before the files.
EarlyNames == {"from", "to", "cc", "bcc", "subject", "text", "amp-html"}

\* The file parts of the request are exactly the expected ones, in order.
FilesAsListed(fields) == SelectSeq(fields, IsFile) = ExpectedFiles

SomeFile(kind) ==
    \/ IsSome(message.attachment)
        /\ \E i \in 1..Len(message.attachment[1]) :
              FileKind(message.attachment[1][i].file_path) = kind
    \/ IsSome(message.inline)
        /\ \E i \in 1..Len(message.inline[1]) :
              FileKind(message.inline[1][i].file_path) = kind

\* C18: a send of a message with a body on the multipart path whose form
\* cannot be built ends with the error of the failing step (a file that
\* cannot be opened: MessageParamsError; a body that cannot be read as text:
\* MessageBodyError) and puts no request on the network; a request that does
\* go out carries a file part for every attachment and inline entry.
C18_EncodingFailureAborts ==
    /\ (InSend /\ (IsSome(message.text) \/ IsSome(message.html))
            /\ (IsSome(message.attachment) \/ IsSome(message.inline)))
        => IF SomeFile("missing")
           THEN pc = "done" /\ outcome.kind = "MessageParamsError"
           ELSE IF SomeFile("binary")
           THEN pc = "done" /\ outcome.kind = "MessageBodyError"
           ELSE request.encoding = "multipart" /\ FilesAsListed(request.fields)
    /\ outcome.kind \in {"MessageError", "MessageParamsError", "MessageBodyError"}
        => (pc = "done" /\ sent = 0 /\ request = NoRequest /\ response = NoResponse)

C18_Witness ==
    /\ pc = "done" /\ sent = 0 /\ request = NoRequest
    /\ outcome.kind = "MessageParamsError"
    /\ message.attachment = Some(<<A1, A3>>)
    /\ IsSome(message.html)

\* The outcome of a send that ended without a response, as the message alone
\* decides it.
AloneFailure(m) ==
    IF IsNone(m.text) /\ IsNone(m.html)
    THEN Outcome("Panic", "No message body is set", "")
    ELSE IF IsNone(m.attachment) /\ IsNone(m.inline)
    THEN Outcome("Unknown", "unsupported value", "")
    ELSE LET files == (IF IsSome(m.attachment) THEN m.attachment[1] ELSE <<>>)
                      \o (IF IsSome(m.inline) THEN m.inline[1] ELSE <<>>)
             kinds == {FileKind(files[i].file_path) : i \in 1..Len(files)}
         IN  IF "missing" \in kinds THEN Outcome("MessageParamsError", "", "")
             ELSE Outcome("MessageBodyError", "", "")

\* The outcome of the send of thread th run alone with the same message and
\* the same transport response.
AloneOutcome(th) ==
    IF th.response = NoResponse THEN AloneFailure(th.message)
    ELSE receive(th.response)

\* The send of thread th is what it would be alone: its request carries the
\* domain and key of its own client, and once it has ended its outcome is the
\* outcome of running it alone.
Independent(th) ==
    /\ th.request # NoRequest =>
          /\ th.request.url = "https://api.mailgun.net/v3/" \o th.client.domain \o "/messages"
          /\ th.request.auth = "api:" \o th.client.api_key
    /\ th.pc # "done" => th.outcome = NoOutcome
    /\ th.pc = "done" => th.outcome = AloneOutcome(th)

\* The step is a switch between the two threads and changes neither.
Switched == other' = Locals /\ Locals' = other

\* C19: under any interleaving of two sends (same or different clients, same
\* or different messages) each send's outcome equals the outcome of running
\* it alone with the same message and transport response, a step of one send
\* leaves the other thread's send untouched, and a send leaves the borrowed
\* message and the client's api key and domain unchanged.
C19_ConcurrentIndependent ==
    /\ [](Independent(Locals) /\ Independent(other))
    /\ [][Switched \/ (other' = other /\ message' = message /\ client' = client)]_vars

C19_Witness ==
    /\ pc = "done" /\ outcome.kind = "Success"
    /\ other.pc = "sending" /\ other.sent = 1
    /\ other.message = message
    /\ other.client = client

C19_WitnessDifferent ==
    /\ pc = "done" /\ outcome.kind = "MessageParamsError"
    /\ other.pc = "done" /\ other.outcome.kind = "ApiForbiddenError"
    /\ other.client # client

\* The attachment list l is a prefix of the attachment list of the next state.
GrowsFrom(l) ==
    /\ IsSome(message'.attachment)
    /\ Len(message'.attachment[1]) >= Len(l)
    /\ SubSeq(message'.attachment[1], 1, Len(l)) = l

\* C20: once attachment has been called the attachment field is never unset,
\* empty or shortened by a later builder operation, and every send of the
\* message that puts a request on the network takes the multipart path.
C20_AttachmentsMonotone ==
    /\ [](IsSome(message.attachment) => Len(message.attachment[1]) >= 1)
    /\ []((pc = "sending" /\ IsSome(message.attachment))
            => request.encoding = "multipart")
    /\ [][IsSome(message.attachment) => GrowsFrom(message.attachment[1])]_vars

C20_Witness ==
    /\ pc = "sending" /\ request.encoding = "multipart"
    /\ message.attachment = Some(<<A1, A4>>)
    /\ IsNone(message.inline)
    /\ calls >= 3

====
